---- MODULE Spec2Model ----
(***************************************************************************)
(* Span-lifecycle state machine of chaostoolkit-opentracing.               *)
(*                                                                         *)
(* Two adapters are modelled, the host loads one of them (impl):           *)
(*   "control" : chaostracing/control.py, the before_X/after_X controls    *)
(*               on top of an OpenTracing tracer and its scope manager;    *)
(*   "oltp"    : chaostracing/oltp.py, OLTPRunEventHandler on top of       *)
(*               OpenTelemetry, one ExitStack per lifecycle slot.          *)
(*                                                                         *)
(* The tracer is the external collaborator.  Its spans are kept in the     *)
(* table `spans` (index = span identity).  A recording OpenTracing tracer  *)
(* keeps its active scopes as a stack (ThreadLocalScopeManager: closing    *)
(* the active scope finishes its span and re-activates the scope that was  *)
(* active when it was created); the no-op tracer records nothing and its   *)
(* scope manager always answers with its one no-op scope.  An              *)
(* OpenTelemetry span ignores set_attribute and end once it has ended.     *)
(* A Python None dereference, a missing key, an index out of range and a   *)
(* json.dumps of an unserializable value raise: the callback stops there   *)
(* with the assignments made so far, and last.raised records it.           *)
(***************************************************************************)
EXTENDS Integers, Sequences, FiniteSets, TLC

\* ------------------------------------------------------------------ bounds
MaxSpans == 3          \* spans the tracer creates in one run of oltp.py
MaxControlSpans == 2   \* spans the tracer creates in one run of control.py
NActs == 2             \* activity records owned by the host
MaxProbes == 2         \* probes in the state of one continuous iteration

None == 0              \* Python None for span references and activity ids

VARIABLES
    impl,              \* adapter module loaded by the host
    spans,             \* the tracer's spans, in creation order
    last,              \* the last callback: [op, a, raised]
    global_tracer,     \* opentracing.global_tracer(): "noop", "jaeger", "shim"
    tracer_registered, \* opentracing.is_global_tracer_registered()
    tracer_closed,     \* tracer.close() has run on the global tracer
    jaeger_initialized,\* jaeger_client.Config._initialized
    scopes,            \* scope manager: spans of the active scopes, active one last
    REGISTRY_HANDLER,  \* oltp.py module global: a handler exists
    handlers,          \* handlers registered with the host's event registry
    provider_set,      \* trace.set_tracer_provider has run
    self,              \* the fields of OLTPRunEventHandler
    acts,              \* the host's activity records: [a |-> [_id]]
    iteration,         \* spans created by the last continuous_hypothesis_iteration
    callers            \* concurrent callers of start_activity/activity_completed

vars == <<impl, spans, last, global_tracer, tracer_registered, tracer_closed,
          jaeger_initialized, scopes, REGISTRY_HANDLER, handlers, provider_set, self, acts,
          iteration, callers>>

controlVars ==
    <<global_tracer, tracer_registered, tracer_closed, jaeger_initialized, scopes>>
oltpVars == <<REGISTRY_HANDLER, handlers, provider_set, self, acts, iteration>>

Activities == 1..NActs

\* ------------------------------------------------------------- the tracer
NoTags == <<>>

\* tracer.start_span / start_as_current_span: a new span record.
NewSpan(name, parent) ==
    [name |-> name, parent |-> parent, ends |-> 0, tags |-> NoTags,
     logs |-> <<>>, late |-> FALSE]

Put(t, k, v) == [x \in (DOMAIN t) \cup {k} |-> IF x = k THEN v ELSE t[x]]

\* span.set_tag / span.set_attribute: dropped (and noted) on an ended span.
set_attribute(S, s, k, v) ==
    IF S[s].ends > 0 THEN [S EXCEPT ![s].late = TRUE]
    ELSE [S EXCEPT ![s].tags = Put(S[s].tags, k, v)]

\* span.log_kv
log_kv(S, s, kv) ==
    IF S[s].ends > 0 THEN [S EXCEPT ![s].late = TRUE]
    ELSE [S EXCEPT ![s].logs = Append(S[s].logs, kv)]

\* span.finish / span.end: counted, so that a second finish shows.
end(S, s) == [S EXCEPT ![s].ends = IF S[s].ends < 2 THEN S[s].ends + 1 ELSE 2]

\* The batch span processor ships finished spans: when the next callback
\* starts, a finished span has kept its identity and its end count only.
Exported ==
    [i \in DOMAIN spans |->
        IF spans[i].ends > 0
        THEN [spans[i] EXCEPT !.name = "", !.parent = None, !.tags = NoTags,
                              !.logs = <<>>]
        ELSE spans[i]]

CanOpen == Len(spans) < (IF impl = "control" THEN MaxControlSpans ELSE MaxSpans)

\* What `last` keeps of a callback: its name and, for the activity
\* callbacks, the record it was given, when it returned; that it raised
\* otherwise.
ResultOf(op, a, raised) ==
    [op |-> IF raised THEN "" ELSE op, a |-> IF raised THEN None ELSE a,
     raised |-> raised]

Result(op, raised) == ResultOf(op, None, raised)

\* ------------------------------------------------- oltp.py: the records
Journals == {[status |-> "completed", deviated |-> "False"],
             [status |-> "deviated", deviated |-> "True"]}

HypothesisStates == {[steady_state_met |-> "True"], [steady_state_met |-> "False"]}

\* An activity record carries a tolerance when it is a probe of the
\* steady-state hypothesis; here the even-numbered records do.
HasTolerance(a) == a % 2 = 0

ActivityName(a) == "activity-" \o ToString(a)

Unserializable == "<object>"

OutputsOf(a) == {"out-" \o ToString(a), Unserializable}

\* The run of record a: its output, and the traceback of a failed run.
RunsOf(a) == {r \in [output : OutputsOf(a), status : {"succeeded", "failed"},
                     exception : BOOLEAN] : r.exception = (r.status = "failed")}

\* json.dumps of a value it can serialize (a string: quoted).
json_dumps(v) == "\"" \o v \o "\""

Times == 1..2

ProbeRecords == {p \in [start : Times, end : Times, output : {"7", Unserializable}] :
                    p.start <= p.end}

ProbeLists == UNION {[1..n -> ProbeRecords] : n \in 0..MaxProbes}

\* int(strptime(text).replace(tzinfo=utc).timestamp() * 1e9): seconds to ns,
\* in units of 10^6 so that the numbers stay small.
parse_ts(t) == t * 1000

\* ------------------------------------------------ oltp.py: ExitStack
NoStack == [span |-> None, open |-> FALSE, none |-> TRUE]

ExitStack(s) == [span |-> s, open |-> TRUE, none |-> FALSE]

\* ExitStack.close(): leaves new_span's context, which ends the span; a
\* second close finds no callback left.
close(S, stack) == IF stack.open THEN end(S, stack.span) ELSE S

Closed(stack) == [span |-> None, open |-> FALSE, none |-> FALSE]

Drop(f, k) == [x \in (DOMAIN f) \ {k} |-> f[x]]

\* OLTPRunEventHandler.__init__
NewHandler ==
    [root_stack |-> NoStack, root_span |-> None,
     before_ssh_span |-> None, before_ssh_stack |-> NoStack,
     after_ssh_stack |-> NoStack, after_ssh_span |-> None,
     method_stack |-> NoStack, method_span |-> None,
     rollbacks_stack |-> NoStack, rollbacks_span |-> None,
     continuous_stack |-> NoStack, continuous_span |-> None,
     activity_stacks |-> <<>>, activity_spans |-> <<>>,
     current_span |-> None]

NoIteration == <<>>

\* ------------------------------------------- oltp.py: configure_control
Vendors == {"gcp", "aws", "azure", "otlp"}

\* configure_traces: "ok" or the exception it raises.
configure_traces(cfg_given, vendor, has_deps) ==
    IF ~cfg_given THEN "AttributeError"
    ELSE IF vendor \in {"gcp", "aws", "azure"} /\ ~has_deps THEN "RuntimeError"
    ELSE IF vendor \in {"aws", "azure"} THEN "UnboundLocalError"
    ELSE "ok"

\* OLTPRunEventHandler.started on handler h: the root span.
started(h, S) ==
    LET span == Len(S) + 1 IN
    [h EXCEPT !.root_stack = ExitStack(span), !.root_span = span,
              !.current_span = span]

startedSpans(S) ==
    LET span == Len(S) + 1
        S1 == Append(S, NewSpan("experiment", None))
        S2 == set_attribute(S1, span, "chaostoolkit.experiment.title", "title")
    IN  set_attribute(S2, span, "chaostoolkit.platform.full", "platform")

oltp_configure_control(cfg_given, vendor, has_deps) ==
    /\ impl = "oltp"
    /\ ~REGISTRY_HANDLER
    /\ CanOpen
    /\ LET S == Exported
           r == configure_traces(cfg_given, vendor, has_deps)
       IN  IF r # "ok"
           THEN /\ spans' = S
                /\ last' = Result("configure_control", TRUE)
                /\ UNCHANGED <<REGISTRY_HANDLER, handlers, provider_set, self>>
           ELSE /\ provider_set' = TRUE
                /\ REGISTRY_HANDLER' = TRUE
                /\ handlers' = handlers + 1
                /\ self' = started(NewHandler, S)
                /\ spans' = startedSpans(S)
                /\ last' = Result("configure_control", FALSE)
    /\ iteration' = NoIteration
    /\ UNCHANGED <<impl, controlVars, acts, callers>>

\* The module exports configure_control only: the host finds no
\* cleanup_control to call, and its cleanup changes nothing.
oltp_cleanup_control ==
    /\ impl = "oltp"
    /\ REGISTRY_HANDLER
    /\ spans' = Exported
    /\ last' = Result("cleanup_control", FALSE)
    /\ iteration' = NoIteration
    /\ UNCHANGED <<impl, controlVars, REGISTRY_HANDLER, handlers, provider_set,
                   self, acts, callers>>

\* --------------------------------------- oltp.py: OLTPRunEventHandler
Handler == impl = "oltp" /\ REGISTRY_HANDLER

\* What every callback of the handler leaves alone.
HandlerFrame ==
    /\ iteration' = NoIteration
    /\ UNCHANGED <<impl, controlVars, REGISTRY_HANDLER, handlers, provider_set,
                   callers>>

finish(journal) ==
    /\ Handler
    /\ LET S == Exported
           span == self.root_span
       IN  IF span = None
           THEN /\ spans' = S
                /\ self' = self
                /\ last' = Result("finish", TRUE)
           ELSE LET S1 == set_attribute(S, span, "chaostoolkit.experiment.status",
                                        journal.status)
                    S2 == set_attribute(S1, span, "chaostoolkit.experiment.deviated",
                                        journal.deviated)
                IN  /\ spans' = close(S2, self.root_stack)
                    /\ self' = [self EXCEPT !.root_span = None,
                                            !.root_stack = Closed(@)]
                    /\ last' = Result("finish", FALSE)
    /\ UNCHANGED acts
    /\ HandlerFrame

\* interrupted and signal_exit: one attribute on the root span.
NotifyRoot(op, key) ==
    /\ Handler
    /\ LET S == Exported
       IN  IF self.root_span = None
           THEN /\ spans' = S
                /\ last' = Result(op, TRUE)
           ELSE /\ spans' = set_attribute(S, self.root_span, key, "True")
                /\ last' = Result(op, FALSE)
    /\ UNCHANGED <<self, acts>>
    /\ HandlerFrame

interrupted == NotifyRoot("interrupted", "chaostoolkit.experiment.interrupted")

signal_exit == NotifyRoot("signal_exit", "chaostoolkit.experiment.exit_signal")

\* A handler that would hang every phase span under the span activities
\* are hung under.
PhaseParentCurrent == self.current_span

\* The parent every phase span is given: new_span(name, self.root_span).
PhaseParent == self.root_span

\* start_hypothesis_before, start_hypothesis_after, start_method,
\* start_rollbacks and start_continuous_hypothesis: one span in the slot.
StartPhase(op, name, phase, span_f, stack_f, sets_current) ==
    /\ Handler
    /\ CanOpen
    /\ LET S == Exported
           span == Len(S) + 1
           S1 == Append(S, NewSpan(name, PhaseParent))
       IN  /\ spans' = IF phase = "" THEN S1
                       ELSE set_attribute(S1, span, "chaostoolkit.hypothesis.phase",
                                          phase)
           /\ self' = [self EXCEPT ![stack_f] = ExitStack(span),
                                   ![span_f] = span,
                                   !.current_span = IF sets_current THEN span ELSE @]
    /\ last' = Result(op, FALSE)
    /\ UNCHANGED acts
    /\ HandlerFrame

\* A start_continuous_hypothesis that would move current_span as the other
\* phase starts do.
start_continuous_hypothesis_sets_current ==
    StartPhase("start_continuous_hypothesis", "hypothesis", "continuous",
               "continuous_span", "continuous_stack", TRUE)

start_continuous_hypothesis ==
    StartPhase("start_continuous_hypothesis", "hypothesis", "continuous",
               "continuous_span", "continuous_stack", FALSE)

start_hypothesis_before ==
    StartPhase("start_hypothesis_before", "hypothesis", "before",
               "before_ssh_span", "before_ssh_stack", TRUE)

start_hypothesis_after ==
    StartPhase("start_hypothesis_after", "hypothesis", "after",
               "after_ssh_span", "after_ssh_stack", TRUE)

start_method ==
    StartPhase("start_method", "method", "", "method_span", "method_stack", TRUE)

start_rollbacks ==
    StartPhase("start_rollbacks", "rollbacks", "", "rollbacks_span",
               "rollbacks_stack", TRUE)

\* hypothesis_before_completed and hypothesis_after_completed: the slot is
\* emptied and current_span reset before the span is used.
CompleteHypothesis(op, span_f, stack_f, state) ==
    /\ Handler
    /\ LET S == Exported
           span == self[span_f]
           h1 == [self EXCEPT ![span_f] = None, !.current_span = self.root_span]
       IN  IF span = None
           THEN /\ spans' = S
                /\ self' = h1
                /\ last' = Result(op, TRUE)
           ELSE /\ spans' = close(set_attribute(S, span, "chaostoolkit.hypothesis.met",
                                                state.steady_state_met),
                                  self[stack_f])
                /\ self' = [h1 EXCEPT ![stack_f] = Closed(@)]
                /\ last' = Result(op, FALSE)
    /\ UNCHANGED acts
    /\ HandlerFrame

hypothesis_before_completed(state) ==
    CompleteHypothesis("hypothesis_before_completed", "before_ssh_span",
                       "before_ssh_stack", state)

hypothesis_after_completed(state) ==
    CompleteHypothesis("hypothesis_after_completed", "after_ssh_span",
                       "after_ssh_stack", state)

\* method_completed, rollbacks_completed, continuous_hypothesis_completed:
\* the slot is emptied, then the stack is closed (None.close() raises).
CompletePhase(op, span_f, stack_f, resets_current) ==
    /\ Handler
    /\ LET S == Exported
           h1 == [self EXCEPT ![span_f] = None,
                              !.current_span = IF resets_current THEN self.root_span
                                               ELSE @]
       IN  IF self[stack_f] = NoStack
           THEN /\ spans' = S
                /\ self' = h1
                /\ last' = Result(op, TRUE)
           ELSE /\ spans' = close(S, self[stack_f])
                /\ self' = [h1 EXCEPT ![stack_f] = Closed(@)]
                /\ last' = Result(op, FALSE)
    /\ UNCHANGED acts
    /\ HandlerFrame

method_completed ==
    CompletePhase("method_completed", "method_span", "method_stack", TRUE)

rollbacks_completed ==
    CompletePhase("rollbacks_completed", "rollbacks_span", "rollbacks_stack", TRUE)

continuous_hypothesis_completed ==
    CompletePhase("continuous_hypothesis_completed", "continuous_span",
                  "continuous_stack", FALSE)

\* secrets.token_hex(6): 48 random bits, a fresh identifier at every call;
\* the identity of the span it will name stands for it.
token_hex(span) == span

\* A handler that would hang every activity span under the root span.
ActivitySpanUnderRoot(S, a, parent) ==
    LET span == Len(S) + 1
        S1 == Append(S, NewSpan("activity", self.root_span))
        S2 == set_attribute(S1, span, "chaostoolkit.activity.name", ActivityName(a))
    IN  set_attribute(S2, span, "chaostoolkit.activity.background", "False")

\* The span start_activity creates, with its two attributes.
ActivitySpan(S, a, parent) ==
    LET span == Len(S) + 1
        S1 == Append(S, NewSpan("activity", parent))
        S2 == set_attribute(S1, span, "chaostoolkit.activity.name", ActivityName(a))
    IN  set_attribute(S2, span, "chaostoolkit.activity.background", "False")

start_activity(a) ==
    /\ Handler
    /\ LET S == Exported
           parent == self.current_span
       IN  IF self.continuous_span # None /\ HasTolerance(a)
           THEN /\ spans' = S
                /\ UNCHANGED <<self, acts>>
           ELSE /\ CanOpen
                /\ LET span == Len(S) + 1
                       stack_id == token_hex(span)
                   IN  /\ spans' = ActivitySpan(S, a, parent)
                       /\ acts' = [acts EXCEPT ![a].id = stack_id]
                       /\ self' = [self EXCEPT
                                     !.activity_stacks = Put(@, stack_id, ExitStack(span)),
                                     !.activity_spans = Put(@, stack_id, span)]
    /\ last' = ResultOf("start_activity", a, FALSE)
    /\ HandlerFrame

\* The attributes activity_completed sets from the run.
CompletedAttributes(S, span, run) ==
    LET S1 == set_attribute(S, span, "chaostoolkit.activity.output",
                            json_dumps(run.output))
        S2 == set_attribute(S1, span, "chaostoolkit.activity.status", run.status)
    IN  IF run.exception
        THEN set_attribute(S2, span, "chaostoolkit.activity.error", "traceback")
        ELSE S2

activity_completed(a, run) ==
    /\ Handler
    /\ LET S == Exported
           stack_id == acts[a].id
       IN  IF stack_id = None
           THEN /\ spans' = S
                /\ UNCHANGED <<self, acts>>
                /\ last' = ResultOf("activity_completed", a, FALSE)
           ELSE /\ acts' = [acts EXCEPT ![a].id = None]
                /\ LET span == self.activity_spans[stack_id]
                       h1 == [self EXCEPT !.activity_spans = Drop(@, stack_id)]
                   IN  IF run.output = Unserializable
                       THEN /\ spans' = S
                            /\ self' = h1
                            /\ last' = ResultOf("activity_completed", a, TRUE)
                       ELSE /\ spans' = close(CompletedAttributes(S, span, run),
                                              self.activity_stacks[stack_id])
                            /\ self' = [h1 EXCEPT
                                          !.activity_stacks = Drop(@, stack_id)]
                            /\ last' = ResultOf("activity_completed", a, FALSE)
    /\ HandlerFrame

\* The state of one iteration: steady_state_met and the probes that ran.
IterationStates == [steady_state_met : {"True", "False"}, probes : ProbeLists]

\* The first probe whose output json.dumps rejects, 0 when there is none.
FirstUnserializable(probes) ==
    LET bad == {i \in DOMAIN probes : probes[i].output = Unserializable}
    IN  IF bad = {} THEN 0 ELSE CHOOSE i \in bad : \A j \in bad : i <= j

\* An iteration that would record the iteration span alone, no probe span.
IterationSpansAlone(parent, iteration_index, state) ==
    <<[name |-> "hypothesis", parent |-> [table |-> "spans", span |-> parent],
       start_time |-> parse_ts(state.probes[1].start),
       end_time |-> parse_ts(state.probes[1].end),
       ends |-> 1, tags |-> NoTags]>>

\* The spans continuous_hypothesis_iteration creates, the iteration span
\* first.  All are created with end_on_exit=False and ended by hand, so an
\* exception inside the with blocks leaves the spans entered so far open.
IterationSpans(parent, iteration_index, state) ==
    LET probes == state.probes
        k == FirstUnserializable(probes)
        made == IF k = 0 THEN Len(probes) ELSE k
        first_probe == probes[1]
        base == [x \in {"chaostoolkit.hypothesis.phase",
                        "chaostoolkit.hypothesis.iteration",
                        "chaostoolkit.hypothesis.met"} |->
                    IF x = "chaostoolkit.hypothesis.phase" THEN "continuous"
                    ELSE IF x = "chaostoolkit.hypothesis.iteration"
                         THEN ToString(iteration_index)
                    ELSE state.steady_state_met]
        span == [name |-> "hypothesis", parent |-> [table |-> "spans", span |-> parent],
                 start_time |-> parse_ts(first_probe.start),
                 end_time |-> IF k = 0 THEN parse_ts(first_probe.end) ELSE None,
                 ends |-> IF k = 0 THEN 1 ELSE 0,
                 tags |-> base]
        begun == [x \in {"chaostoolkit.activity.name",
                         "chaostoolkit.activity.background"} |->
                    IF x = "chaostoolkit.activity.name" THEN "probe" ELSE "False"]
        child(i) ==
            [name |-> "activity", parent |-> [table |-> "iteration", span |-> 1],
             start_time |-> parse_ts(probes[i].start),
             end_time |-> IF i = k THEN None ELSE parse_ts(probes[i].end),
             ends |-> IF i = k THEN 0 ELSE 1,
             tags |-> IF i = k THEN begun
                      ELSE Put(Put(begun, "chaostoolkit.activity.output",
                                   json_dumps(probes[i].output)),
                               "chaostoolkit.activity.status", "succeeded")]
    IN  <<span>> \o [i \in 1..made |-> child(i)]

continuous_hypothesis_iteration(iteration_index, state) ==
    /\ Handler
    /\ spans' = Exported
    /\ IF Len(state.probes) = 0
       THEN /\ iteration' = NoIteration
            /\ last' = Result("continuous_hypothesis_iteration", TRUE)
       ELSE /\ iteration' = IterationSpans(self.continuous_span, iteration_index, state)
            /\ last' = Result("continuous_hypothesis_iteration",
                              FirstUnserializable(state.probes) # 0)
    /\ UNCHANGED <<impl, controlVars, REGISTRY_HANDLER, handlers, provider_set,
                   self, acts, callers>>

\* ------------------------------------------------- control.py: records
\* The provider of activity record a: the first record is an HTTP call.
ProviderType(a) == IF a = 1 THEN "http" ELSE "python"

ActivityKind(a) == IF HasTolerance(a) THEN "probe" ELSE "action"

\* The method key of the provider, for the records that are HTTP calls.
MethodsOf(a) == IF ProviderType(a) = "http" THEN {"absent", "post"} ELSE {"absent"}

\* provider.get("method", "GET").upper()
http_method(method) ==
    IF method = "absent" THEN "GET"
    ELSE IF method = "post" THEN "POST"
    ELSE method

\* The header the tracer's inject writes into the carrier.
PropagationHeader ==
    IF global_tracer = "jaeger" THEN {"uber-trace-id"}
    ELSE IF global_tracer = "shim" THEN {"traceparent"}
    ELSE {}

\* A value handed to _log_kv: a primitive, a mapping/list, or an object
\* json.dumps cannot serialize.
Value(kind, v) == [kind |-> kind, v |-> v]

ProviderKV(a) ==
    [k \in {"type", "arguments"} |->
        IF k = "type" THEN Value("str", ProviderType(a)) ELSE Value("dict", "{}")]

\* State of after_hypothesis_control: steady_state_met and the probes run
\* ("absent": no probes key; "empty": an empty list; "no_tolerance": the
\* last probe's activity declares no tolerance).
ControlHypothesisStates ==
    [steady_state_met : BOOLEAN, probes : {"absent", "empty", "ok", "no_tolerance"}]

\* A mapping written as text: the one tag value of the model that is not a
\* bool, a string, bytes, an int or a float.
MappingText == "{'code': 200}"

\* A reading of the status that would take a number only.
StatusOfNumeric(output) == IF output = "dict_status" THEN "200" ELSE "None"

\* output.get("status") of an output that is a mapping: None without the
\* key, else the number or the mapping found there.
StatusOf(output) ==
    IF output = "dict_status" THEN "200"
    ELSE IF output = "dict_status_map" THEN MappingText
    ELSE "None"

\* Run of after_activity_control on record a: the output (a mapping with a
\* numeric status, a mapping whose status is itself a mapping, another
\* mapping, a text), the status, whether a failed run carries its exception
\* text, and tolerance_met when the record declares a tolerance.
ControlRunsOf(a) ==
    {r \in [output : {"dict_status", "dict_status_map", "dict", "text"},
            status : {"succeeded", "failed"},
            exception : BOOLEAN, tolerance_met : {"None", "True", "False"}] :
        /\ r.exception => r.status = "failed"
        /\ ProviderType(a) # "http" => r.output = "text"
        /\ ~HasTolerance(a) => r.tolerance_met = "None"}

PyBool(b) == IF b THEN "True" ELSE "False"

\* ------------------------------------------------ control.py: the tracer
Recording == global_tracer # "noop"

\* tracer.scope_manager.active: the span of the active scope (None: no scope).
Active == IF scopes = <<>> THEN None ELSE scopes[Len(scopes)]

\* scope.close() on the active scope: finish_on_close, previous scope active.
scope_close(S) == end(S, Active)

Restored == SubSeq(scopes, 1, Len(scopes) - 1)

\* _log_kv: the shim takes primitives only, mappings go as JSON strings and
\* what cannot be serialized is left out.
LogKV(key_values, tracer, S, span) ==
    IF DOMAIN key_values = {} THEN S
    ELSE IF tracer # "shim" THEN log_kv(S, span, key_values)
    ELSE LET keep == {k \in DOMAIN key_values : key_values[k].kind # "object"}
             kv == [k \in keep |->
                      IF key_values[k].kind = "dict"
                      THEN Value("str", json_dumps(key_values[k].v))
                      ELSE key_values[k]]
         IN  log_kv(S, span, kv)

ControlFrame ==
    UNCHANGED <<impl, REGISTRY_HANDLER, handlers, provider_set, self, iteration,
                callers>>

\* ------------------------------------- control.py: configure and cleanup
Providers == {"noop", "jaeger", "opentelemetry", "zipkin"}

\* The tracer configure_control creates: "none" when it creates none.
\* create_noop_tracer answers opentracing.tracer, the module attribute that
\* set_global_tracer rebinds: the tracer that is global at that moment.
\* create_jaeger_tracer answers Config.initialize_tracer(), which builds a
\* tracer once per process and answers None afterwards.
create_tracer(provider, exporter_ok) ==
    IF provider = "noop" THEN global_tracer
    ELSE IF provider = "jaeger"
         THEN IF jaeger_initialized THEN "none" ELSE "jaeger"
    ELSE IF provider = "opentelemetry" /\ exporter_ok THEN "shim"
    ELSE "none"

\* "Configure the tracer once for the life of the experiment's execution":
\* the host calls it first, and again only after a cleanup.  A new tracer
\* comes with its own scope manager: no scope is active in it.
configure_control(provider, exporter_ok) ==
    /\ impl = "control"
    /\ last.op \in {"none", "configure_control", "cleanup_control"}
    /\ LET tracer == create_tracer(provider, exporter_ok)
       IN  /\ IF tracer = "none"
              THEN UNCHANGED <<global_tracer, tracer_registered, tracer_closed,
                               scopes>>
              ELSE /\ global_tracer' = tracer
                   /\ tracer_registered' = TRUE
                   /\ IF provider = "noop"
                      THEN UNCHANGED <<tracer_closed, scopes>>
                      ELSE /\ tracer_closed' = FALSE
                           /\ scopes' = <<>>
           /\ jaeger_initialized' = (jaeger_initialized \/ provider = "jaeger")
    /\ spans' = Exported
    /\ last' = Result("configure_control", FALSE)
    /\ UNCHANGED acts
    /\ ControlFrame

\* cleanup_control: closes the active scope, then the tracer when it has a
\* close method (the Jaeger tracer has one).
cleanup_control ==
    /\ impl = "control"
    /\ LET S == Exported
       IN  IF Recording /\ Active # None
           THEN /\ spans' = scope_close(S)
                /\ scopes' = Restored
           ELSE /\ spans' = S
                /\ scopes' = scopes
    /\ tracer_closed' = IF global_tracer = "jaeger" THEN TRUE ELSE tracer_closed
    /\ last' = Result("cleanup_control", FALSE)
    /\ UNCHANGED <<global_tracer, tracer_registered, jaeger_initialized, acts>>
    /\ ControlFrame

\* --------------------------------------- control.py: before_X / after_X
\* before_experiment_control: a span under the active scope's span, if any.
before_experiment_control ==
    /\ impl = "control"
    /\ LET S == Exported
           span == Len(S) + 1
       IN  IF ~Recording
           THEN /\ spans' = S
                /\ scopes' = scopes
           ELSE /\ CanOpen
                /\ LET S1 == Append(S, NewSpan("experiment", Active))
                       S2 == set_attribute(S1, span, "type", "experiment")
                       S3 == set_attribute(S2, span, "target", "tag1, tag2")
                   IN  spans' = set_attribute(S3, span, "availability", "high")
                /\ scopes' = Append(scopes, span)
    /\ last' = Result("before_experiment_control", FALSE)
    /\ UNCHANGED <<global_tracer, tracer_registered, tracer_closed, jaeger_initialized,
                 acts>>
    /\ ControlFrame

after_experiment_control(journal) ==
    /\ impl = "control"
    /\ LET S == Exported
       IN  IF ~Recording
           THEN /\ spans' = S
                /\ scopes' = scopes
                /\ last' = Result("after_experiment_control", FALSE)
           ELSE IF Active = None
           THEN /\ spans' = S
                /\ scopes' = scopes
                /\ last' = Result("after_experiment_control", TRUE)
           ELSE /\ spans' = scope_close(set_attribute(S, Active, "status",
                                                      journal.status))
                /\ scopes' = Restored
                /\ last' = Result("after_experiment_control", FALSE)
    /\ UNCHANGED <<global_tracer, tracer_registered, tracer_closed, jaeger_initialized,
                 acts>>
    /\ ControlFrame

\* before_hypothesis_control, before_method_control, before_rollback_control:
\* a span, child of the active scope's span (scope.span raises without one).
BeforePhase(op, name, type) ==
    /\ impl = "control"
    /\ LET S == Exported
           span == Len(S) + 1
       IN  IF ~Recording
           THEN /\ spans' = S
                /\ scopes' = scopes
                /\ last' = Result(op, FALSE)
           ELSE IF Active = None
           THEN /\ spans' = S
                /\ scopes' = scopes
                /\ last' = Result(op, TRUE)
           ELSE /\ CanOpen
                /\ spans' = set_attribute(Append(S, NewSpan(name, Active)),
                                          span, "type", type)
                /\ scopes' = Append(scopes, span)
                /\ last' = Result(op, FALSE)
    /\ UNCHANGED <<global_tracer, tracer_registered, tracer_closed, jaeger_initialized,
                 acts>>
    /\ ControlFrame

before_hypothesis_control ==
    BeforePhase("before_hypothesis_control", "hypothesis", "hypothesis")

before_method_control == BeforePhase("before_method_control", "Method", "method")

before_rollback_control ==
    BeforePhase("before_rollback_control", "Rollbacks", "rollback")

\* An after_hypothesis_control that would tag deviated with steady_state_met
\* itself and stop there.
HypothesisOutcomeMet(S, span, state) ==
    [S |-> set_attribute(S, span, "deviated", PyBool(state.steady_state_met)),
     raised |-> FALSE]

\* The tags and the log after_hypothesis_control puts on the span before the
\* finally clause, and whether it raised on the way.
HypothesisOutcome(S, span, state) ==
    LET deviated == ~state.steady_state_met
        S1 == set_attribute(S, span, "deviated", PyBool(deviated))
        S2 == set_attribute(S1, span, "error", "True")
        kv == [k \in {"probe", "expected", "computed"} |->
                 IF k = "probe" THEN Value("str", "p1")
                 ELSE IF k = "expected" THEN Value("int", "5")
                 ELSE Value("int", "7")]
    IN  IF ~(deviated /\ state.probes # "absent") THEN [S |-> S1, raised |-> FALSE]
        ELSE IF state.probes = "empty" THEN [S |-> S1, raised |-> TRUE]
        ELSE IF state.probes = "no_tolerance" THEN [S |-> S2, raised |-> TRUE]
        ELSE [S |-> LogKV(kv, global_tracer, S2, span), raised |-> FALSE]

\* Reading the probes of the state raises whatever the tracer is.
HypothesisRaises(state) ==
    /\ ~state.steady_state_met
    /\ state.probes \in {"empty", "no_tolerance"}

after_hypothesis_control(state) ==
    /\ impl = "control"
    /\ LET S == Exported
       IN  IF ~Recording
           THEN /\ spans' = S
                /\ scopes' = scopes
                /\ last' = Result("after_hypothesis_control", HypothesisRaises(state))
           ELSE IF Active = None
           THEN /\ spans' = S
                /\ scopes' = scopes
                /\ last' = Result("after_hypothesis_control", TRUE)
           ELSE LET r == HypothesisOutcome(S, Active, state)
                IN  /\ spans' = scope_close(r.S)
                    /\ scopes' = Restored
                    /\ last' = Result("after_hypothesis_control", r.raised)
    /\ UNCHANGED <<global_tracer, tracer_registered, tracer_closed, jaeger_initialized,
                 acts>>
    /\ ControlFrame

\* after_method_control and after_rollback_control: close the active scope.
AfterPhase(op) ==
    /\ impl = "control"
    /\ LET S == Exported
       IN  IF Recording /\ Active # None
           THEN /\ spans' = scope_close(S)
                /\ scopes' = Restored
           ELSE /\ spans' = S
                /\ scopes' = scopes
    /\ last' = Result(op, FALSE)
    /\ UNCHANGED <<global_tracer, tracer_registered, tracer_closed, jaeger_initialized,
                 acts>>
    /\ ControlFrame

after_method_control == AfterPhase("after_method_control")

after_rollback_control == AfterPhase("after_rollback_control")

\* A before_activity_control that would tag http.method with the provider's
\* method as written, and set no other HTTP tag.
ControlActivitySpanRaw(S, a, method) ==
    LET span == Len(S) + 1
        S1 == Append(S, NewSpan(ActivityName(a), Active))
        S2 == set_attribute(S1, span, "type", "activity")
    IN  IF ProviderType(a) = "http"
        THEN set_attribute(S2, span, "http.method", method)
        ELSE S2

\* The span before_activity_control opens for record a.
ControlActivitySpan(S, a, method) ==
    LET span == Len(S) + 1
        S1 == Append(S, NewSpan(ActivityName(a), Active))
        S2 == set_attribute(S1, span, "type", "activity")
        S3 == set_attribute(S2, span, "activity", ActivityKind(a))
        S4 == LogKV(ProviderKV(a), global_tracer, S3, span)
        S5 == set_attribute(S4, span, "http.method", http_method(method))
        S6 == set_attribute(S5, span, "http.url", "https://x")
    IN  IF ProviderType(a) = "http"
        THEN set_attribute(S6, span, "span.kind", "client")
        ELSE S4

before_activity_control(a, method) ==
    /\ impl = "control"
    /\ LET S == Exported
           span == Len(S) + 1
       IN  IF ~Recording
           THEN /\ spans' = S
                /\ scopes' = scopes
                /\ acts' = acts
                /\ last' = ResultOf("before_activity_control", a, FALSE)
           ELSE IF Active = None
           THEN /\ spans' = S
                /\ scopes' = scopes
                /\ acts' = acts
                /\ last' = ResultOf("before_activity_control", a, TRUE)
           ELSE /\ CanOpen
                /\ spans' = ControlActivitySpan(S, a, method)
                /\ scopes' = Append(scopes, span)
                /\ acts' = IF ProviderType(a) = "http"
                           THEN [acts EXCEPT ![a].headers = @ \cup PropagationHeader]
                           ELSE acts
                /\ last' = ResultOf("before_activity_control", a, FALSE)
    /\ UNCHANGED <<global_tracer, tracer_registered, tracer_closed, jaeger_initialized>>
    /\ ControlFrame

\* The tags and the log after_activity_control puts on the span before the
\* finally clause, and whether it raised on the way.
ActivityOutcome(S, span, a, run) ==
    LET S1 == IF ProviderType(a) = "http" /\ StatusOf(run.output) # "None"
              THEN set_attribute(S, span, "http.status_code", StatusOf(run.output))
              ELSE S
        S2 == set_attribute(S1, span, "status", run.status)
        S3 == set_attribute(S2, span, "error", "True")
        kv == [k \in {"event", "stack"} |->
                 IF k = "event" THEN Value("str", "error")
                 ELSE Value("str", "traceback")]
        S4 == IF run.status = "failed" THEN LogKV(kv, global_tracer, S3, span) ELSE S2
        S5 == set_attribute(S4, span, "deviated",
                            IF run.tolerance_met = "True" THEN "1" ELSE "0")
        S6 == set_attribute(S5, span, "error", run.tolerance_met)
    IN  IF run.status = "failed" /\ ~run.exception THEN [S |-> S3, raised |-> TRUE]
        ELSE IF run.tolerance_met = "None" THEN [S |-> S4, raised |-> FALSE]
        ELSE [S |-> S6, raised |-> FALSE]

after_activity_control(a, run) ==
    /\ impl = "control"
    /\ LET S == Exported
       IN  IF ~Recording
           THEN /\ spans' = S
                /\ scopes' = scopes
                /\ last' = ResultOf("after_activity_control", a,
                                  run.status = "failed" /\ ~run.exception)
           ELSE IF Active = None
           THEN /\ spans' = S
                /\ scopes' = scopes
                /\ last' = ResultOf("after_activity_control", a, TRUE)
           ELSE LET r == ActivityOutcome(S, Active, a, run)
                IN  /\ spans' = scope_close(r.S)
                    /\ scopes' = Restored
                    /\ last' = ResultOf("after_activity_control", a, r.raised)
    /\ UNCHANGED <<global_tracer, tracer_registered, tracer_closed, jaeger_initialized,
                 acts>>
    /\ ControlFrame

\* ------------------------------- oltp.py: activities run by several callers
\* The host runs background activities and the continuous hypothesis in
\* threads of their own: start_activity and activity_completed of distinct
\* records interleave statement by statement.  Caller t owns record t; its
\* locals (parent, span, stack, stack_id, run) are in callers[t].  The
\* callers here are the activities of the method: no phase starts or ends
\* meanwhile, and the spans stay in the table as the tracer holds them.
NoRun == [output |-> "", status |-> "", exception |-> FALSE]

IdleCaller ==
    [pc |-> "idle", parent |-> None, span |-> None, stack_id |-> None,
     run |-> NoRun, raised |-> FALSE]

NoCallers == [t \in Activities |-> IdleCaller]

CallerFrame ==
    UNCHANGED <<impl, controlVars, REGISTRY_HANDLER, handlers, provider_set,
                iteration, last>>

\* start_activity, lines 319-323: reads current_span, leaves when the
\* record is a probe of the running continuous hypothesis.
start_activity_enter(t) ==
    /\ Handler
    /\ callers[t].pc = "idle"
    /\ callers' = [callers EXCEPT
                     ![t].parent = self.current_span,
                     ![t].pc = IF self.continuous_span # None /\ HasTolerance(t)
                               THEN "started" ELSE "new_span"]
    /\ UNCHANGED <<spans, self, acts>>
    /\ CallerFrame

\* lines 325-329: the span, entered on a new ExitStack, and its attributes.
start_activity_new_span(t) ==
    /\ callers[t].pc = "new_span"
    /\ CanOpen
    /\ spans' = ActivitySpan(spans, t, callers[t].parent)
    /\ callers' = [callers EXCEPT ![t].span = Len(spans) + 1, ![t].pc = "set_id"]
    /\ UNCHANGED <<self, acts>>
    /\ CallerFrame

\* lines 331-332: stack_id = token_hex(6); activity["_id"] = stack_id
start_activity_set_id(t) ==
    /\ callers[t].pc = "set_id"
    /\ LET stack_id == token_hex(callers[t].span)
       IN  /\ acts' = [acts EXCEPT ![t].id = stack_id]
           /\ callers' = [callers EXCEPT ![t].stack_id = stack_id,
                                         ![t].pc = "put_stack"]
    /\ UNCHANGED <<spans, self>>
    /\ CallerFrame

\* line 334: self.activity_stacks[stack_id] = stack
start_activity_put_stack(t) ==
    /\ callers[t].pc = "put_stack"
    /\ self' = [self EXCEPT !.activity_stacks =
                   Put(@, callers[t].stack_id, ExitStack(callers[t].span))]
    /\ callers' = [callers EXCEPT ![t].pc = "put_span"]
    /\ UNCHANGED <<spans, acts>>
    /\ CallerFrame

\* line 335: self.activity_spans[stack_id] = span
start_activity_put_span(t) ==
    /\ callers[t].pc = "put_span"
    /\ self' = [self EXCEPT !.activity_spans =
                   Put(@, callers[t].stack_id, callers[t].span)]
    /\ callers' = [callers EXCEPT ![t].pc = "started"]
    /\ UNCHANGED <<spans, acts>>
    /\ CallerFrame

\* activity_completed, lines 338-341: stack_id = activity.pop("_id", None)
activity_completed_pop_id(t, run) ==
    /\ callers[t].pc = "started"
    /\ acts' = [acts EXCEPT ![t].id = None]
    /\ callers' = [callers EXCEPT
                     ![t].stack_id = acts[t].id,
                     ![t].run = IF acts[t].id = None THEN NoRun ELSE run,
                     ![t].pc = IF acts[t].id = None THEN "done" ELSE "pop_span"]
    /\ UNCHANGED <<spans, self>>
    /\ CallerFrame

\* line 343: span = self.activity_spans.pop(stack_id)
activity_completed_pop_span(t) ==
    /\ callers[t].pc = "pop_span"
    /\ LET stack_id == callers[t].stack_id
       IN  IF stack_id \in DOMAIN self.activity_spans
           THEN /\ self' = [self EXCEPT !.activity_spans = Drop(@, stack_id)]
                /\ callers' = [callers EXCEPT
                                 ![t].span = self.activity_spans[stack_id],
                                 ![t].pc = "set_attributes"]
           ELSE /\ self' = self
                /\ callers' = [callers EXCEPT ![t].raised = TRUE, ![t].pc = "done"]
    /\ UNCHANGED <<spans, acts>>
    /\ CallerFrame

\* lines 344-349: the attributes of the run; json.dumps raises first when
\* it cannot serialize the output.
activity_completed_set_attributes(t) ==
    /\ callers[t].pc = "set_attributes"
    /\ IF callers[t].run.output = Unserializable
       THEN /\ spans' = spans
            /\ callers' = [callers EXCEPT ![t].raised = TRUE, ![t].pc = "done"]
       ELSE /\ spans' = CompletedAttributes(spans, callers[t].span, callers[t].run)
            /\ callers' = [callers EXCEPT ![t].pc = "close"]
    /\ UNCHANGED <<self, acts>>
    /\ CallerFrame

\* lines 351-352: stack = self.activity_stacks.pop(stack_id); stack.close()
activity_completed_close(t) ==
    /\ callers[t].pc = "close"
    /\ LET stack_id == callers[t].stack_id
       IN  IF stack_id \in DOMAIN self.activity_stacks
           THEN /\ self' = [self EXCEPT !.activity_stacks = Drop(@, stack_id)]
                /\ spans' = close(spans, self.activity_stacks[stack_id])
                /\ callers' = [callers EXCEPT ![t].pc = "done"]
           ELSE /\ UNCHANGED <<self, spans>>
                /\ callers' = [callers EXCEPT ![t].raised = TRUE, ![t].pc = "done"]
    /\ UNCHANGED acts
    /\ CallerFrame

\* ------------------------------------------------------- specification
\* The records a callback is explored with.  A callback that returns, or
\* raises, before it reads its record is explored with one record; with no
\* span to tag, after_activity_control is explored with the fields that
\* decide whether it raises.
OneOf(records) == {CHOOSE r \in records : TRUE}

JournalsRead(span) == IF span = None THEN OneOf(Journals) ELSE Journals

HypothesisStatesRead(span) ==
    IF span = None THEN OneOf(HypothesisStates) ELSE HypothesisStates

RunsRead(a) == IF acts[a].id = None THEN OneOf(RunsOf(a)) ELSE RunsOf(a)

ControlRunsRead(a) ==
    IF Recording /\ Active # None
    THEN {r \in ControlRunsOf(a) :
            (r.status = "failed" /\ ~r.exception) => r.tolerance_met = "None"}
    ELSE {r \in ControlRunsOf(a) : r.output = "text" /\ r.tolerance_met = "None"}

\* after_hypothesis_control looks at the probes of a state only when
\* steady_state_met is false.
ControlHypothesisStatesRead ==
    {state \in ControlHypothesisStates :
        state.steady_state_met => state.probes = "ok"}

Init ==
    /\ impl \in {"control", "oltp"}
    /\ spans = <<>>
    /\ last = Result("none", FALSE)
    /\ global_tracer = "noop"
    /\ tracer_registered = FALSE
    /\ tracer_closed = FALSE
    /\ jaeger_initialized = FALSE
    /\ scopes = <<>>
    /\ REGISTRY_HANDLER = FALSE
    /\ handlers = 0
    /\ provider_set = FALSE
    /\ self = NewHandler
    /\ acts = [a \in Activities |->
                 [id |-> None,
                  headers |-> IF ProviderType(a) = "http" THEN {"accept"} ELSE {}]]
    /\ iteration = NoIteration
    /\ callers = NoCallers

NextControl ==
    \/ \E provider \in Providers, exporter_ok \in BOOLEAN :
          configure_control(provider, exporter_ok)
    \/ cleanup_control
    \/ before_experiment_control
    \/ \E journal \in JournalsRead(IF Recording THEN Active ELSE None) :
          after_experiment_control(journal)
    \/ before_hypothesis_control
    \/ \E state \in ControlHypothesisStatesRead : after_hypothesis_control(state)
    \/ before_method_control
    \/ after_method_control
    \/ before_rollback_control
    \/ after_rollback_control
    \/ \E a \in Activities : \E method \in MethodsOf(a) :
          before_activity_control(a, method)
    \/ \E a \in Activities : \E run \in ControlRunsRead(a) :
          after_activity_control(a, run)

NextOltp ==
    \/ \E cfg_given \in BOOLEAN, vendor \in Vendors, has_deps \in BOOLEAN :
          oltp_configure_control(cfg_given, vendor, has_deps)
    \/ oltp_cleanup_control
    \/ \E journal \in JournalsRead(self.root_span) : finish(journal)
    \/ interrupted
    \/ signal_exit
    \/ start_continuous_hypothesis
    \/ continuous_hypothesis_completed
    \/ start_hypothesis_before
    \/ \E state \in HypothesisStatesRead(self.before_ssh_span) :
          hypothesis_before_completed(state)
    \/ start_hypothesis_after
    \/ \E state \in HypothesisStatesRead(self.after_ssh_span) :
          hypothesis_after_completed(state)
    \/ start_method
    \/ method_completed
    \/ start_rollbacks
    \/ rollbacks_completed
    \/ \E a \in Activities : start_activity(a)
    \/ \E a \in Activities : \E run \in RunsRead(a) : activity_completed(a, run)

Next == NextControl \/ NextOltp

Spec == Init /\ [][Next]_vars

\* The host with control.py loaded, and with oltp.py loaded.
InitControl == Init /\ impl = "control"

SpecControl == InitControl /\ [][NextControl]_vars

InitHandler == Init /\ impl = "oltp"

SpecHandler == InitHandler /\ [][NextOltp]_vars

\* continuous_hypothesis_iteration reads self.continuous_span and writes no
\* field of the handler: it is explored with the callbacks of the
\* continuous slot.
\* The states an iteration reads: it stops at the first probe whose output
\* json.dumps rejects, so the records after that one are not looked at.
IterationStatesRead ==
    {state \in IterationStates :
        FirstUnserializable(state.probes) \in {0, Len(state.probes)}}

NextIteration ==
    \/ oltp_configure_control(TRUE, "otlp", TRUE)
    \/ start_continuous_hypothesis
    \/ \E state \in IterationStatesRead : continuous_hypothesis_iteration(0, state)
    \/ continuous_hypothesis_completed

SpecIteration == Init /\ [][NextIteration]_vars

\* The callers of start_activity / activity_completed, one per record, on
\* the handler that configure_control registered.
NextActivities ==
    \/ oltp_configure_control(TRUE, "otlp", TRUE)
    \/ \E t \in Activities : start_activity_enter(t)
    \/ \E t \in Activities : start_activity_new_span(t)
    \/ \E t \in Activities : start_activity_set_id(t)
    \/ \E t \in Activities : start_activity_put_stack(t)
    \/ \E t \in Activities : start_activity_put_span(t)
    \/ \E t \in Activities : \E run \in RunsOf(t) : activity_completed_pop_id(t, run)
    \/ \E t \in Activities : activity_completed_pop_span(t)
    \/ \E t \in Activities : activity_completed_set_attributes(t)
    \/ \E t \in Activities : activity_completed_close(t)

SpecActivities == Init /\ [][NextActivities]_vars

\* ------------------------------------------------------------ properties
\* The span a slot of the handler holds is open.
SlotOpen(span_f) == self[span_f] # None /\ spans[self[span_f]].ends = 0

\* The kind of the span of the active scope ("" without one).
ActiveKind ==
    IF Active = None THEN ""
    ELSE IF "type" \in DOMAIN spans[Active].tags THEN spans[Active].tags["type"]
    ELSE ""

\* This step finishes span s, once, and no other span.
FinishesOnly(s) ==
    /\ spans[s].ends = 0
    /\ spans'[s].ends = 1
    /\ \A i \in (DOMAIN spans) \ {s} : spans'[i].ends = spans[i].ends

\* This step finishes no span and tags none.
TouchesNoSpan == spans' = Exported

OpenSpans == {i \in DOMAIN spans : spans[i].ends = 0}

\* The callbacks as steps, whatever record they are given.
Finish == \E journal \in Journals : finish(journal)
HypothesisBeforeCompleted ==
    \E state \in HypothesisStates : hypothesis_before_completed(state)
HypothesisAfterCompleted ==
    \E state \in HypothesisStates : hypothesis_after_completed(state)
ActivityCompleted(a) == \E run \in RunsOf(a) : activity_completed(a, run)
AfterExperimentControl == \E journal \in Journals : after_experiment_control(journal)
AfterHypothesisControl ==
    \E state \in ControlHypothesisStates : after_hypothesis_control(state)
AfterActivityControl(a) == \E run \in ControlRunsOf(a) : after_activity_control(a, run)

\* The same with a record whose content the callback reads without raising.
AfterHypothesisControlRead ==
    \E state \in ControlHypothesisStates :
        ~HypothesisRaises(state) /\ after_hypothesis_control(state)
AfterActivityControlRead(a) ==
    \E run \in ControlRunsOf(a) :
        ~(run.status = "failed" /\ ~run.exception) /\ after_activity_control(a, run)

\* A start immediately followed by its completed callback, in oltp.py: the
\* start opened one span, the newest, into the slot; the completed callback
\* finishes that span once and empties the slot.
OltpPair(start, completed, span_f) ==
    (last.op = start /\ completed) =>
        /\ self[span_f] = Len(spans)
        /\ FinishesOnly(self[span_f])
        /\ self'[span_f] = None

OltpActivityPair(a) ==
    (last.op = "start_activity" /\ last.a = a /\ ActivityCompleted(a)) =>
        /\ acts[a].id # None
        /\ acts[a].id \in DOMAIN self.activity_spans
        /\ self.activity_spans[acts[a].id] = Len(spans)
        /\ FinishesOnly(self.activity_spans[acts[a].id])
        /\ acts[a].id \notin DOMAIN self'.activity_spans
        /\ acts[a].id \notin DOMAIN self'.activity_stacks

\* The same in control.py with a recording tracer: the before opened the
\* span of the active scope; the after finishes it and the scope is gone.
ControlPair(before, after) ==
    (Recording /\ last.op = before /\ after) =>
        /\ Active = Len(spans)
        /\ Active # None
        /\ FinishesOnly(Active)
        /\ scopes' = Restored

\* C1: for every lifecycle kind, in control.py and in OLTPRunEventHandler, a
\* before_X/start_X call followed by its matching after_X/X_completed call
\* opens exactly one span and finishes exactly that span once, and after
\* the pair the slot or the activity-registry entry of X is empty again.
C1_PairOpensAndFinishesOneSpan ==
    [][ /\ OltpPair("configure_control", Finish, "root_span")
        /\ OltpPair("start_hypothesis_before", HypothesisBeforeCompleted,
                    "before_ssh_span")
        /\ OltpPair("start_hypothesis_after", HypothesisAfterCompleted,
                    "after_ssh_span")
        /\ OltpPair("start_continuous_hypothesis", continuous_hypothesis_completed,
                    "continuous_span")
        /\ OltpPair("start_method", method_completed, "method_span")
        /\ OltpPair("start_rollbacks", rollbacks_completed, "rollbacks_span")
        /\ \A a \in Activities : OltpActivityPair(a)
        /\ ControlPair("before_experiment_control", AfterExperimentControl)
        /\ ControlPair("before_hypothesis_control", AfterHypothesisControl)
        /\ ControlPair("before_method_control", after_method_control)
        /\ ControlPair("before_rollback_control", after_rollback_control)
        /\ \A a \in Activities :
              ControlPair("before_activity_control", AfterActivityControl(a))
      ]_vars

\* C2: after any sequence of callbacks that ends with finish (handler) or
\* with cleanup_control (control.py), no span that was opened is still open.
C2_NoSpanOpenAfterFinalCallback ==
    (\/ impl = "oltp" /\ last.op = "finish"
     \/ impl = "control" /\ last.op = "cleanup_control")
        => OpenSpans = {}

\* The second of two calls in a row of the same closing callback.
Again(op, completed) ==
    (last.op = op /\ completed) => (~last'.raised /\ TouchesNoSpan)

\* C3: when the same after_X / X_completed callback is called twice in a
\* row, the second call does not raise, finishes no span a second time and
\* changes no other span.
C3_SecondCallIsNoOp ==
    [][ /\ Again("finish", Finish)
        /\ Again("hypothesis_before_completed", HypothesisBeforeCompleted)
        /\ Again("hypothesis_after_completed", HypothesisAfterCompleted)
        /\ Again("method_completed", method_completed)
        /\ Again("rollbacks_completed", rollbacks_completed)
        /\ Again("continuous_hypothesis_completed", continuous_hypothesis_completed)
        /\ \A a \in Activities :
              (last.a = a) => Again("activity_completed", ActivityCompleted(a))
        /\ Again("after_experiment_control", AfterExperimentControl)
        /\ Again("after_hypothesis_control", AfterHypothesisControlRead)
        /\ Again("after_method_control", after_method_control)
        /\ Again("after_rollback_control", after_rollback_control)
        /\ \A a \in Activities :
              (last.a = a) =>
                  Again("after_activity_control", AfterActivityControlRead(a))
      ]_vars

\* A closing callback that finds nothing of its kind to close.
Unmatched(nothing, completed) ==
    (nothing /\ completed) => (~last'.raised /\ TouchesNoSpan)

\* C4: an after_X / X_completed callback called when no matching before_X /
\* start_X was called before it (slot empty, no active scope, or only spans
\* of other phases open) does not raise and leaves every open span open and
\* untagged.
C4_UnmatchedCompletedIsHarmless ==
    [][ /\ Unmatched(Handler /\ self.root_span = None, Finish)
        /\ Unmatched(Handler /\ self.before_ssh_span = None,
                     HypothesisBeforeCompleted)
        /\ Unmatched(Handler /\ self.after_ssh_span = None, HypothesisAfterCompleted)
        /\ Unmatched(Handler /\ self.method_span = None, method_completed)
        /\ Unmatched(Handler /\ self.rollbacks_span = None, rollbacks_completed)
        /\ Unmatched(Handler /\ self.continuous_span = None,
                     continuous_hypothesis_completed)
        /\ \A a \in Activities :
              Unmatched(Handler /\ acts[a].id = None, ActivityCompleted(a))
        /\ Unmatched(Recording /\ ActiveKind # "experiment", AfterExperimentControl)
        /\ Unmatched(Recording /\ ActiveKind # "hypothesis",
                     AfterHypothesisControlRead)
        /\ Unmatched(Recording /\ ActiveKind # "method", after_method_control)
        /\ Unmatched(Recording /\ ActiveKind # "rollback", after_rollback_control)
        /\ \A a \in Activities :
              Unmatched(Recording /\ ActiveKind # "activity",
                        AfterActivityControlRead(a))
      ]_vars

\* This step opens a phase span (hypothesis, method, rollback): the newest.
PhaseNames == {"hypothesis", "method", "rollbacks", "Method", "Rollbacks"}

PhaseOpened ==
    /\ Len(spans') = Len(spans) + 1
    /\ spans'[Len(spans')].name \in PhaseNames

\* The span opened last among those still open.
Innermost == CHOOSE i \in OpenSpans : \A j \in OpenSpans : j <= i

\* C5, as stated: whenever a phase span is opened, its parent is the
\* innermost span open at that moment (the root experiment span when no
\* other span is open).
C5_ParentIsInnermostOpenSpan ==
    [][ (PhaseOpened /\ OpenSpans # {}) =>
            spans'[Len(spans')].parent = Innermost ]_vars

\* C5, as the code has it: whenever a phase span is opened, its parent is,
\* in the handler, the span the root slot holds at that moment (the root
\* experiment span, whatever other spans are open; no parent once finish
\* has emptied the slot) and, in control.py, the span of the active scope.
C5_ParentIsRootSlotOrActiveScope ==
    [][ PhaseOpened =>
            spans'[Len(spans')].parent =
                (IF impl = "oltp" THEN self.root_span ELSE Active) ]_vars

\* A method span hangs under the root span of the handler while a
\* hypothesis span opened before it, and after the root, is still open.
C5_MethodUnderRootBesideOpenHypothesis ==
    /\ impl = "oltp"
    /\ self.root_span # None
    /\ \E i, j \in OpenSpans :
          /\ self.root_span < i /\ i < j
          /\ spans[i].name = "hypothesis"
          /\ spans[j].name = "method"
          /\ spans[j].parent = self.root_span

AllDone == \A t \in Activities : callers[t].pc = "done"

\* The span of caller t carries the attributes of the run of caller t.
OwnAttributes(t) ==
    LET tags == spans[callers[t].span].tags
        run == callers[t].run
    IN  /\ tags["chaostoolkit.activity.name"] = ActivityName(t)
        /\ "chaostoolkit.activity.output" \in DOMAIN tags
        /\ tags["chaostoolkit.activity.output"] = json_dumps(run.output)
        /\ tags["chaostoolkit.activity.status"] = run.status
        /\ ("chaostoolkit.activity.error" \in DOMAIN tags) = run.exception

\* C6: when the callers, one per activity record, run start_activity and
\* then activity_completed with their steps interleaved in any order, every
\* caller that is through has its own span finished exactly once, carrying
\* the attributes of its own run only, and once all are through exactly one
\* span per caller is finished and the activity registry is empty.
C6_ConcurrentActivitiesAllFinished ==
    /\ \A t \in Activities :
          callers[t].pc = "done" =>
              /\ ~callers[t].raised
              /\ callers[t].span # None
              /\ spans[callers[t].span].ends = 1
              /\ ~spans[callers[t].span].late
              /\ OwnAttributes(t)
    /\ AllDone =>
          /\ Cardinality({i \in DOMAIN spans :
                             spans[i].name = "activity" /\ spans[i].ends = 1}) = NActs
          /\ DOMAIN self.activity_spans = {}
          /\ DOMAIN self.activity_stacks = {}

\* C7: interrupted or signal_exit, called while the root experiment span is
\* open, tags the root span with the interruption and closes it, without
\* the help of a later callback.
C7_InterruptionClosesRootSpan ==
    [][ /\ (SlotOpen("root_span") /\ interrupted) =>
              /\ "chaostoolkit.experiment.interrupted"
                     \in DOMAIN spans'[self.root_span].tags
              /\ spans'[self.root_span].ends = 1
        /\ (SlotOpen("root_span") /\ signal_exit) =>
              /\ "chaostoolkit.experiment.exit_signal"
                     \in DOMAIN spans'[self.root_span].tags
              /\ spans'[self.root_span].ends = 1
      ]_vars

\* A closing callback that arrives in matched order: the span of its kind
\* is the one open in its slot, in the registry under the id of the record,
\* or in the active scope; with the no-op tracer, its before came last.
MatchedCompleted ==
    \/ SlotOpen("root_span") /\ Finish
    \/ SlotOpen("before_ssh_span") /\ HypothesisBeforeCompleted
    \/ SlotOpen("after_ssh_span") /\ HypothesisAfterCompleted
    \/ SlotOpen("continuous_span") /\ continuous_hypothesis_completed
    \/ SlotOpen("method_span") /\ method_completed
    \/ SlotOpen("rollbacks_span") /\ rollbacks_completed
    \/ \E a \in Activities : acts[a].id # None /\ ActivityCompleted(a)
    \/ ActiveKind = "experiment" /\ AfterExperimentControl
    \/ ActiveKind = "hypothesis" /\ AfterHypothesisControl
    \/ ActiveKind = "method" /\ after_method_control
    \/ ActiveKind = "rollback" /\ after_rollback_control
    \/ \E a \in Activities : ActiveKind = "activity" /\ AfterActivityControl(a)
    \/ ~Recording /\ last.op = "before_hypothesis_control" /\ AfterHypothesisControl
    \/ \E a \in Activities :
          /\ ~Recording
          /\ last.op = "before_activity_control" /\ last.a = a
          /\ AfterActivityControl(a)

\* configure has returned: a handler, or a tracer, is registered.
Configured == Handler \/ (impl = "control" /\ tracer_registered)

\* C8: once configure has returned, no callback that arrives in matched
\* order raises into the host, whatever the content of the record passed.
C8_NoCallbackRaisesInMatchedOrder ==
    [][ (Configured /\ MatchedCompleted) => ~last'.raised ]_vars

\* C9: configure followed immediately by cleanup, with no lifecycle event
\* in between, does not raise and leaves no span open, in control.py and
\* with the event-registry configure_control that opens the root span.
C9_ConfigureThenCleanupLeavesNoSpan ==
    [][ (last.op = "configure_control" /\ (cleanup_control \/ oltp_cleanup_control))
            => /\ ~last'.raised
               /\ \A i \in DOMAIN spans' : spans'[i].ends >= 1 ]_vars

\* C10: no tracer is registered before configure_control; configure_control
\* with provider noop registers the no-op tracer; after cleanup_control no
\* tracer remains registered.
C10_TracerLivesFromConfigureToCleanup ==
    [][ /\ (impl = "control" /\ last.op = "none") => ~tracer_registered
        /\ (\E exporter_ok \in BOOLEAN : configure_control("noop", exporter_ok))
              => (tracer_registered' /\ global_tracer' = "noop")
        /\ cleanup_control => ~tracer_registered'
      ]_vars

\* configure_control with a provider it does not know, or with provider
\* opentelemetry and an exporter it does not know.
UnsupportedConfigure ==
    \/ \E exporter_ok \in BOOLEAN : configure_control("zipkin", exporter_ok)
    \/ configure_control("opentelemetry", FALSE)

\* C11: configure_control with an unsupported provider or exporter either
\* raises or leaves the no-op tracer as the global tracer: it never returns
\* with the tracer of an earlier configure still active.
C11_UnsupportedConfigureLeavesNoopTracer ==
    [][ UnsupportedConfigure => (last'.raised \/ global_tracer' = "noop") ]_vars

\* The log entry of the spec's deviated hypothesis: probe p1, tolerance 5,
\* output 7.
ProbeLog ==
    [k \in {"probe", "expected", "computed"} |->
        IF k = "probe" THEN [kind |-> "str", v |-> "p1"]
        ELSE IF k = "expected" THEN [kind |-> "int", v |-> "5"]
        ELSE [kind |-> "int", v |-> "7"]]

\* C12: after_hypothesis_control, on the hypothesis span, sets deviated =
\* NOT steady_state_met; when deviated and the state records a last probe
\* with its tolerance, it sets error and logs that probe's name as probe,
\* its tolerance as expected and its output as computed; when not deviated
\* it sets no error tag and logs nothing; in every case the span is finished.
C12_HypothesisSpanOutcome ==
    [][ \A state \in ControlHypothesisStates :
          (Recording /\ ActiveKind = "hypothesis" /\ after_hypothesis_control(state))
          => LET span == spans'[Active]
                 deviated == ~state.steady_state_met
             IN  /\ spans[Active].ends = 0
                 /\ span.ends = 1
                 /\ span.tags["deviated"] = (IF deviated THEN "True" ELSE "False")
                 /\ (deviated /\ state.probes = "ok") =>
                        /\ "error" \in DOMAIN span.tags
                        /\ span.tags["error"] = "True"
                        /\ span.logs = <<ProbeLog>>
                 /\ ~deviated =>
                        /\ "error" \notin DOMAIN span.tags
                        /\ span.logs = <<>>
      ]_vars

\* A hypothesis span just finished by after_hypothesis_control: deviated,
\* marked as error, with the probe log.
C12_DeviatedHypothesisFinished ==
    /\ impl = "control"
    /\ \E i \in DOMAIN spans :
          /\ spans[i].ends = 1
          /\ "type" \in DOMAIN spans[i].tags
          /\ spans[i].tags["type"] = "hypothesis"
          /\ "deviated" \in DOMAIN spans[i].tags
          /\ spans[i].tags["deviated"] = "True"
          /\ spans[i].logs = <<ProbeLog>>

HttpTags == {"http.method", "http.url", "span.kind"}

\* C13: before_activity_control on a record whose provider type is http
\* opens a span tagged http.method = the upper-cased method (GET when
\* absent), http.url = the url and span.kind = client, and the provider's
\* headers then hold the injected propagation header besides every header
\* they held; for another provider type no such tag is set and the record
\* is left as it was.
C13_HttpActivityTagsAndHeaders ==
    [][ \A a \in Activities : \A method \in MethodsOf(a) :
          (Recording /\ Active # None /\ before_activity_control(a, method))
          => LET span == spans'[Len(spans')]
             IN  /\ Len(spans') = Len(spans) + 1
                 /\ span.ends = 0
                 /\ \A b \in Activities \ {a} : acts'[b] = acts[b]
                 /\ IF ProviderType(a) = "http"
                    THEN /\ HttpTags \subseteq DOMAIN span.tags
                         /\ span.tags["http.method"] =
                               (IF method = "absent" THEN "GET" ELSE "POST")
                         /\ span.tags["http.url"] = "https://x"
                         /\ span.tags["span.kind"] = "client"
                         /\ acts[a].headers \subseteq acts'[a].headers
                         /\ global_tracer = "jaeger" =>
                               "uber-trace-id" \in acts'[a].headers
                         /\ global_tracer = "shim" =>
                               "traceparent" \in acts'[a].headers
                    ELSE /\ HttpTags \cap DOMAIN span.tags = {}
                         /\ acts'[a] = acts[a]
      ]_vars

\* An open activity span of an HTTP call made with method post, its
\* provider's headers holding the trace header next to the one it had.
C13_HttpPostSpanOpened ==
    /\ impl = "control"
    /\ \E a \in Activities :
          /\ {"accept", "uber-trace-id"} \subseteq acts[a].headers
          /\ \E i \in DOMAIN spans :
                /\ spans[i].ends = 0
                /\ "http.method" \in DOMAIN spans[i].tags
                /\ spans[i].tags["http.method"] = "POST"
                /\ spans[i].name = ActivityName(a)

\* C14: continuous_hypothesis_iteration with k >= 1 probes, when it returns,
\* has created one iteration span under the continuous-hypothesis span and
\* k activity spans under the iteration span; their start and end times are
\* the ones parsed from the record (the iteration span's are those of the
\* first probe, a probe span's are its own), and each is finished once.
C14_IterationSpansFromRecord ==
    [][ (last'.op = "continuous_hypothesis_iteration" /\ SlotOpen("continuous_span")) =>
        \A state \in IterationStatesRead :
          (/\ Len(state.probes) >= 1
           /\ continuous_hypothesis_iteration(0, state)
           /\ ~last'.raised)
          => LET k == Len(state.probes)
                 it == iteration'
             IN  /\ Len(it) = 1 + k
                 /\ it[1].name = "hypothesis"
                 /\ it[1].parent = [table |-> "spans", span |-> self.continuous_span]
                 /\ it[1].start_time = state.probes[1].start * 1000
                 /\ it[1].end_time = state.probes[1].end * 1000
                 /\ it[1].ends = 1
                 /\ \A i \in 1..k :
                       /\ it[i + 1].name = "activity"
                       /\ it[i + 1].parent = [table |-> "iteration", span |-> 1]
                       /\ it[i + 1].start_time = state.probes[i].start * 1000
                       /\ it[i + 1].end_time = state.probes[i].end * 1000
                       /\ it[i + 1].ends = 1
                 /\ spans' = Exported
      ]_vars

\* An iteration of two probes with different intervals has returned: three
\* spans, all finished.
C14_TwoProbeIterationRecorded ==
    /\ last.op = "continuous_hypothesis_iteration"
    /\ self.continuous_span # None
    /\ Len(iteration) = 3
    /\ \A i \in 1..3 : iteration[i].ends = 1
    /\ iteration[2].end_time # iteration[3].end_time
    /\ iteration[2].start_time # iteration[3].start_time

PrimitiveKinds == {"bool", "str", "bytes", "int", "float"}

\* Every tag and every logged value of a span is a primitive.
PrimitiveOnly(span) ==
    /\ \A k \in DOMAIN span.tags : span.tags[k] # MappingText
    /\ \A n \in DOMAIN span.logs : \A k \in DOMAIN span.logs[n] :
          span.logs[n][k].kind \in PrimitiveKinds

\* C15: with the OpenTelemetry shim as tracer, every value a callback
\* attaches to a span as tag or as log entry is a primitive, mappings being
\* logged as their JSON string; with another tracer the key-values are
\* logged as they are.
C15_ShimGetsPrimitivesOnly ==
    [][ /\ (global_tracer = "shim" /\ Len(spans') = Len(spans) + 1)
              => PrimitiveOnly(spans'[Len(spans')])
        /\ \A a \in Activities :
              (/\ global_tracer = "shim"
               /\ Active # None
               /\ last.op = "before_activity_control" /\ last.a = a
               /\ AfterActivityControlRead(a))
              => PrimitiveOnly(spans'[Active])
        /\ \A a \in Activities : \A method \in MethodsOf(a) :
              (Recording /\ Active # None /\ before_activity_control(a, method))
              => spans'[Len(spans')].logs =
                    <<[k \in {"type", "arguments"} |->
                         IF k = "type" THEN [kind |-> "str", v |-> ProviderType(a)]
                         ELSE IF global_tracer = "shim"
                              THEN [kind |-> "str", v |-> "\"{}\""]
                              ELSE [kind |-> "dict", v |-> "{}"]]>>
      ]_vars

\* C16: when the run given to after_activity_control / activity_completed
\* reports a failed activity (with its failure detail), the span the
\* callback finishes carries the failed status, the mark error = true and
\* the failure detail, whatever tolerance_met is.
C16_FailedActivityMarkedErrored ==
    [][ /\ \A a \in Activities : \A run \in ControlRunsOf(a) :
              (/\ Recording /\ Active # None
               /\ last.op = "before_activity_control" /\ last.a = a
               /\ run.status = "failed" /\ run.exception
               /\ after_activity_control(a, run))
              => /\ spans'[Active].ends = 1
                 /\ spans'[Active].tags["status"] = "failed"
                 /\ spans'[Active].tags["error"] = "True"
                 /\ \E n \in DOMAIN spans'[Active].logs :
                       "stack" \in DOMAIN spans'[Active].logs[n]
        /\ \A a \in Activities : \A run \in RunsOf(a) :
              (/\ Handler
               /\ acts[a].id # None /\ acts[a].id \in DOMAIN self.activity_spans
               /\ run.status = "failed" /\ run.exception
               /\ run.output # Unserializable
               /\ activity_completed(a, run))
              => LET s == spans'[self.activity_spans[acts[a].id]]
                 IN  /\ s.ends = 1
                     /\ s.tags["chaostoolkit.activity.status"] = "failed"
                     /\ "chaostoolkit.activity.error" \in DOMAIN s.tags
                     /\ "error" \in DOMAIN s.tags
                     /\ s.tags["error"] = "True"
      ]_vars

\* The phases that move the current-span pointer, by the slot of each.
PointerSlots == {"before_ssh_span", "after_ssh_span", "method_span", "rollbacks_span"}

StartOf(span_f) ==
    IF span_f = "before_ssh_span" THEN "start_hypothesis_before"
    ELSE IF span_f = "after_ssh_span" THEN "start_hypothesis_after"
    ELSE IF span_f = "method_span" THEN "start_method"
    ELSE "start_rollbacks"

CompletedOf(span_f) ==
    IF span_f = "before_ssh_span" THEN "hypothesis_before_completed"
    ELSE IF span_f = "after_ssh_span" THEN "hypothesis_after_completed"
    ELSE IF span_f = "method_span" THEN "method_completed"
    ELSE "rollbacks_completed"

\* This step is a start_activity that creates a span: the newest.
ActivityOpened ==
    /\ Handler
    /\ \E a \in Activities : start_activity(a)
    /\ Len(spans') = Len(spans) + 1

OpenPhases == {self[f] : f \in {g \in PointerSlots : SlotOpen(g)}}

PhaseStart ==
    \/ start_hypothesis_before
    \/ start_hypothesis_after
    \/ start_continuous_hypothesis
    \/ start_method
    \/ start_rollbacks

PhaseCompleted ==
    \/ HypothesisBeforeCompleted
    \/ HypothesisAfterCompleted
    \/ continuous_hypothesis_completed
    \/ method_completed
    \/ rollbacks_completed

\* This step is started(): the handler is registered and its root span
\* opened.
Started == ~REGISTRY_HANDLER /\ REGISTRY_HANDLER' /\ impl = "oltp"

\* C18, as stated: the current-span pointer is the root span after started,
\* the span of the phase after every phase start (hypothesis before,
\* hypothesis after, continuous hypothesis, method, rollbacks), and the
\* root span again after every phase completed callback.
C18_PointerFollowsEveryPhase ==
    [][ /\ Started => self'.current_span = self'.root_span
        /\ PhaseStart => self'.current_span = Len(spans')
        /\ PhaseCompleted => self'.current_span = self.root_span ]_vars

\* C18, as the code has it: the pointer is the root span after started; the
\* span of the phase after the start of hypothesis before, hypothesis after,
\* method and rollbacks; what the root slot holds after the completed
\* callback of each of these four; and unchanged by the start and by the
\* completed callback of the continuous hypothesis, as by every other
\* callback of the handler; a callback that raises leaves it as it was or
\* at what the root slot holds.
C18_PointerFollowsFourPhases ==
    [][ /\ Started =>
              /\ self'.current_span = self'.root_span
              /\ self'.current_span = Len(spans')
        /\ (Handler /\ last'.op \in {StartOf(f) : f \in PointerSlots}) =>
              /\ self'.current_span = Len(spans')
              /\ Len(spans') = Len(spans) + 1
        /\ (Handler /\ last'.op \in {CompletedOf(f) : f \in PointerSlots}) =>
              self'.current_span = self.root_span
        /\ (Handler /\ last'.op \in {"start_continuous_hypothesis",
                                      "continuous_hypothesis_completed",
                                      "finish", "interrupted", "signal_exit",
                                      "cleanup_control", "start_activity",
                                      "activity_completed"}) =>
              self'.current_span = self.current_span
        /\ (Handler /\ last'.raised) =>
              self'.current_span \in {self.current_span, self.root_span} ]_vars

\* The continuous hypothesis has just started under the open root span, and
\* the pointer is still the root span.
C18_ContinuousStartedPointerAtRoot ==
    /\ Handler
    /\ last.op = "start_continuous_hypothesis"
    /\ SlotOpen("root_span")
    /\ SlotOpen("continuous_span")
    /\ self.continuous_span = Len(spans)
    /\ self.current_span = self.root_span
    /\ self.current_span # self.continuous_span

\* The lifecycle slots: the span field, its guard stack and the kind of
\* span the slot is for.
Slots ==
    {[span_f |-> "root_span", stack_f |-> "root_stack", kind |-> "experiment"],
     [span_f |-> "before_ssh_span", stack_f |-> "before_ssh_stack", kind |-> "before"],
     [span_f |-> "after_ssh_span", stack_f |-> "after_ssh_stack", kind |-> "after"],
     [span_f |-> "continuous_span", stack_f |-> "continuous_stack",
      kind |-> "continuous"],
     [span_f |-> "method_span", stack_f |-> "method_stack", kind |-> "method"],
     [span_f |-> "rollbacks_span", stack_f |-> "rollbacks_stack", kind |-> "rollbacks"]}

\* The kind of span i of the handler: its name, the phase for a hypothesis.
KindOf(i) ==
    IF spans[i].name = "hypothesis"
    THEN IF "chaostoolkit.hypothesis.phase" \in DOMAIN spans[i].tags
         THEN spans[i].tags["chaostoolkit.hypothesis.phase"]
         ELSE ""
    ELSE spans[i].name

\* C19: in every state of the handler, the span field of each lifecycle
\* slot is empty or holds one span that is still open, with the guard of
\* that span unreleased in the stack field, and no open span of the slot's
\* kind exists outside the slot.
C19_SlotEmptyOrOneOpenSpan ==
    Handler =>
        \A slot \in Slots :
            /\ self[slot.span_f] # None =>
                  /\ spans[self[slot.span_f]].ends = 0
                  /\ self[slot.stack_f].open
                  /\ self[slot.stack_f].span = self[slot.span_f]
            /\ \A i \in OpenSpans :
                  KindOf(i) = slot.kind => self[slot.span_f] = i

\* C20: once a span is finished, no later callback of the handler sets an
\* attribute on it, finishes it again, or opens a span with it as parent,
\* and the current-span pointer start_activity reads never refers to a
\* finished span.
C20_FinishedSpanLeftAlone ==
    [][ Handler' =>
          /\ \A i \in DOMAIN spans' : spans'[i].ends <= 1 /\ ~spans'[i].late
          /\ (Len(spans') = Len(spans) + 1 /\ spans'[Len(spans')].parent # None)
                => spans[spans'[Len(spans')].parent].ends = 0
          /\ self'.current_span # None => spans'[self'.current_span].ends = 0
      ]_vars


\* The activity registry of the handler is left as it is.
RegistryUnchanged ==
    /\ self'.activity_spans = self.activity_spans
    /\ self'.activity_stacks = self.activity_stacks

\* C21: while a continuous hypothesis is open, start_activity for a record
\* that carries a tolerance creates no span and registers nothing, and the
\* activity_completed that follows it is a no-op that finishes no span;
\* every other start_activity creates exactly one span, registered under
\* the identifier put in the record.
C21_ContinuousProbesGetNoSpan ==
    [][ \A a \in Activities :
          /\ (Handler /\ self.continuous_span # None /\ HasTolerance(a)
                /\ start_activity(a))
                => /\ spans' = Exported
                   /\ RegistryUnchanged
                   /\ acts' = acts
          /\ (Handler /\ self.continuous_span # None /\ HasTolerance(a)
                /\ last.op = "start_activity" /\ last.a = a
                /\ \E run \in RunsOf(a) :
                      run.output # Unserializable /\ activity_completed(a, run))
                => /\ TouchesNoSpan
                   /\ RegistryUnchanged
                   /\ ~last'.raised
          /\ (Handler /\ ~(self.continuous_span # None /\ HasTolerance(a))
                /\ start_activity(a))
                => /\ Len(spans') = Len(spans) + 1
                   /\ spans'[Len(spans')].name = "activity"
                   /\ spans'[Len(spans')].ends = 0
                   /\ acts'[a].id \in DOMAIN self'.activity_spans
                   /\ self'.activity_spans[acts'[a].id] = Len(spans')
      ]_vars


\* The spans registered in the activity registry.
Registered(h) == {h.activity_spans[id] : id \in DOMAIN h.activity_spans}

\* The completed callback of the phase of slot span_f returns: no span
\* opened under the span of the phase is open or registered after it.
ChildrenDone(span_f, completed) ==
    (Handler /\ SlotOpen(span_f) /\ completed /\ ~last'.raised) =>
        \A i \in DOMAIN spans :
            spans[i].parent = self[span_f] =>
                /\ spans'[i].ends >= 1
                /\ i \notin Registered(self')

\* C22: when method_completed, rollbacks_completed or a hypothesis completed
\* callback returns, no activity span opened under the span of that phase is
\* still open or still registered: every child span is finished no later
\* than its parent.
C22_NoActivityOutlivesItsPhase ==
    [][ /\ ChildrenDone("method_span", method_completed)
        /\ ChildrenDone("rollbacks_span", rollbacks_completed)
        /\ ChildrenDone("before_ssh_span", HypothesisBeforeCompleted)
        /\ ChildrenDone("after_ssh_span", HypothesisAfterCompleted)
      ]_vars


\* C23: when a tagging, logging or serialization step fails inside a
\* closing callback, the span opened by the matching before/start is still
\* finished and its slot or registry entry, span and guard, is removed.
C23_SpanReleasedWhenClosingFails ==
    [][ /\ \A a \in Activities :
              (/\ Handler
               /\ acts[a].id # None /\ acts[a].id \in DOMAIN self.activity_spans
               /\ spans[self.activity_spans[acts[a].id]].ends = 0
               /\ ActivityCompleted(a)
               /\ last'.raised)
              => /\ spans'[self.activity_spans[acts[a].id]].ends = 1
                 /\ acts[a].id \notin DOMAIN self'.activity_spans
                 /\ acts[a].id \notin DOMAIN self'.activity_stacks
        /\ \A a \in Activities :
              (/\ Recording /\ Active # None
               /\ last.op = "before_activity_control" /\ last.a = a
               /\ AfterActivityControl(a)
               /\ last'.raised)
              => /\ spans'[Active].ends = 1
                 /\ scopes' = Restored
        /\ (/\ Recording /\ Active # None
            /\ last.op = "before_hypothesis_control"
            /\ AfterHypothesisControl
            /\ last'.raised)
              => /\ spans'[Active].ends = 1
                 /\ scopes' = Restored
      ]_vars


\* The kind of span i of control.py: its type tag.
TypeOf(i) ==
    IF "type" \in DOMAIN spans[i].tags THEN spans[i].tags["type"] ELSE ""

\* The after callback of a kind, called while a span of that kind is open,
\* finishes or tags spans of that kind only.
AfterOnlyKind(after, kind) ==
    (Recording /\ (\E i \in OpenSpans : TypeOf(i) = kind) /\ after) =>
        \A i \in DOMAIN spans : spans'[i] # Exported[i] => TypeOf(i) = kind

\* C24: in control.py each after_X_control finishes, and tags, the span
\* created by a before_X_control of the same kind X; it never finishes or
\* tags a span created by a before callback of another kind, also when an
\* inner span was left open by a missing after callback.
C24_AfterClosesSpanOfItsKind ==
    [][ /\ AfterOnlyKind(AfterExperimentControl, "experiment")
        /\ AfterOnlyKind(AfterHypothesisControl, "hypothesis")
        /\ AfterOnlyKind(after_method_control, "method")
        /\ AfterOnlyKind(after_rollback_control, "rollback")
        /\ AfterOnlyKind(\E a \in Activities : AfterActivityControl(a), "activity")
      ]_vars


\* C25: configure_control of oltp.py has two outcomes only.  For a vendor
\* (gcp, aws, azure) whose optional dependencies are missing it raises
\* before a handler is registered and before a span is opened; for every
\* vendor whose dependencies are present, and when no configuration mapping
\* is passed, it returns with the tracer provider set, one handler
\* registered and one root span open.
C25_ConfigureRaisesOnMissingDependenciesOnly ==
    [][ \A cfg_given \in BOOLEAN, vendor \in Vendors, has_deps \in BOOLEAN :
          oltp_configure_control(cfg_given, vendor, has_deps) =>
              IF cfg_given /\ vendor \in {"gcp", "aws", "azure"} /\ ~has_deps
              THEN /\ last'.raised
                   /\ ~REGISTRY_HANDLER'
                   /\ handlers' = handlers
                   /\ spans' = Exported
              ELSE /\ ~last'.raised
                   /\ provider_set'
                   /\ REGISTRY_HANDLER'
                   /\ handlers' = 1
                   /\ self'.root_span = Len(spans')
                   /\ spans'[Len(spans')].name = "experiment"
                   /\ spans'[Len(spans')].ends = 0
      ]_vars


\* after_activity_control closes the span its before_activity_control opened,
\* and the span has the http.status_code tag exactly when tagged holds.
StatusCodeTagged(a, run, tagged) ==
    (/\ Recording /\ Active # None
     /\ last.op = "before_activity_control" /\ last.a = a
     /\ after_activity_control(a, run))
    => /\ ("http.status_code" \in DOMAIN spans'[Active].tags) = tagged
       /\ spans'[Active].ends = 1

\* C26, as stated: after_activity_control sets http.status_code exactly
\* when the provider type is http and the output is a mapping with a
\* numeric status; not for another provider, a non-mapping output, a
\* missing status or a non-numeric status; the span is finished in every
\* case.
C26_StatusCodeForNumericStatusOnly ==
    [][ \A a \in Activities : \A run \in ControlRunsOf(a) :
          StatusCodeTagged(a, run,
              ProviderType(a) = "http" /\ run.output = "dict_status") ]_vars

\* C26, as the code has it: http.status_code is set exactly when the
\* provider type is http and the output is a mapping whose status is not
\* None, and its value is that status, a number or not; the span is
\* finished in every case.
C26_StatusCodeForAnyStatus ==
    [][ \A a \in Activities : \A run \in ControlRunsOf(a) :
          /\ StatusCodeTagged(a, run,
                 ProviderType(a) = "http"
                 /\ run.output \in {"dict_status", "dict_status_map"})
          /\ (/\ Recording /\ Active # None
              /\ last.op = "before_activity_control" /\ last.a = a
              /\ after_activity_control(a, run)
              /\ "http.status_code" \in DOMAIN spans'[Active].tags)
             => spans'[Active].tags["http.status_code"] =
                    (IF run.output = "dict_status" THEN "200" ELSE MappingText)
      ]_vars

\* The span of an HTTP activity was just finished with a mapping as its
\* http.status_code tag.
C26_MappingStatusTagged ==
    /\ impl = "control"
    /\ last.op = "after_activity_control"
    /\ ProviderType(last.a) = "http"
    /\ \E i \in DOMAIN spans :
          /\ spans[i].ends = 1
          /\ spans[i].name = ActivityName(last.a)
          /\ "http.status_code" \in DOMAIN spans[i].tags
          /\ spans[i].tags["http.status_code"] = MappingText


\* C27: when the state given to after_activity_control carries
\* tolerance_met, the deviated tag of the finished activity span is truthy
\* exactly when the tolerance was not met, and a met tolerance does not set
\* error = true; without tolerance_met no deviated tag is set.
C27_DeviatedWhenToleranceNotMet ==
    [][ \A a \in Activities : \A run \in ControlRunsOf(a) :
          (/\ Recording /\ Active # None
           /\ last.op = "before_activity_control" /\ last.a = a
           /\ ~(run.status = "failed" /\ ~run.exception)
           /\ after_activity_control(a, run))
          => LET tags == spans'[Active].tags
             IN  /\ spans'[Active].ends = 1
                 /\ ("deviated" \in DOMAIN tags) = (run.tolerance_met # "None")
                 /\ run.tolerance_met = "False" => tags["deviated"] = "1"
                 /\ run.tolerance_met = "True" => tags["deviated"] = "0"
                 /\ (run.tolerance_met = "True" /\ run.status = "succeeded")
                       => ~("error" \in DOMAIN tags /\ tags["error"] = "True")
      ]_vars


\* The probes of the iteration recorded last ran one after the other: the
\* timestamps of the record do not decrease.
NonDecreasing ==
    /\ \A j \in 2..Len(iteration) : iteration[j].start_time <= iteration[j].end_time
    /\ \A j \in 2..(Len(iteration) - 1) :
          iteration[j].end_time <= iteration[j + 1].start_time

\* C28: after a continuous_hypothesis_iteration that returned, the interval
\* of the iteration span contains the interval of each of its probe spans:
\* iteration start <= child start and child end <= iteration end, for any
\* number of probes with non-decreasing timestamps.
C28_IterationIntervalContainsProbes ==
    (/\ Handler
     /\ SlotOpen("continuous_span")
     /\ last.op = "continuous_hypothesis_iteration"
     /\ Len(iteration) >= 2
     /\ NonDecreasing)
    => \A j \in 2..Len(iteration) :
          /\ iteration[1].start_time <= iteration[j].start_time
          /\ iteration[j].end_time <= iteration[1].end_time


\* C29: between the callbacks of the handler, activity_stacks and
\* activity_spans have the same keys, every registered identifier refers to
\* a span that is still open, and every open activity span is registered
\* under exactly one identifier, which its activity record holds.
C29_RegistryMatchesOpenActivitySpans ==
    Handler =>
        /\ DOMAIN self.activity_stacks = DOMAIN self.activity_spans
        /\ \A id \in DOMAIN self.activity_spans :
              spans[self.activity_spans[id]].ends = 0
        /\ \A i \in OpenSpans :
              spans[i].name = "activity" =>
                  \E id \in DOMAIN self.activity_spans :
                      /\ self.activity_spans[id] = i
                      /\ \A other \in DOMAIN self.activity_spans :
                            self.activity_spans[other] = i => other = id
                      /\ \E a \in Activities : acts[a].id = id


\* C30: when start_activity was called twice on a record before any
\* activity_completed, the two activity_completed calls that follow finish
\* both spans, each once, and leave the registry empty.  Seen at the second
\* activity_completed: the first one left one span of the record open and
\* registered, and the second finishes it and empties the registry.
C30_TwoCompletedFinishBothSpans ==
    [][ \A a \in Activities :
          (/\ Handler
           /\ last.op = "activity_completed" /\ last.a = a
           /\ \E i \in OpenSpans :
                 /\ Registered(self) = {i}
                 /\ spans[i].name = "activity"
                 /\ spans[i].tags["chaostoolkit.activity.name"] = ActivityName(a)
           /\ \E run \in RunsOf(a) :
                 run.output # Unserializable /\ activity_completed(a, run))
          => /\ \A i \in Registered(self) : spans'[i].ends = 1
             /\ DOMAIN self'.activity_spans = {}
             /\ DOMAIN self'.activity_stacks = {}
      ]_vars

====
